---- MODULE Spec2Model ----
(***************************************************************************)
(* The execute-python pipeline of the data-to-infographic router:          *)
(* per-request job directory, composed script, interpreter run, artifact   *)
(* collection and delayed cleanup.                                         *)
(***************************************************************************)
EXTENDS Integers, Sequences, FiniteSets, TLC

(* ------------------------------ bounds -------------------------------- *)

\* Date.now() takes the values 0..MaxClock; allocation happens before the last one
MaxClock == 1
\* a code fragment leaves at most MaxFigs figures open when it ends
MaxFigs == 2
\* how many remaining credits the app context may report
MaxCredits == 2
\* how many times the purchase link is activated
MaxClicks == 2
\* the largest figure number a fragment gives a figure
MaxFigNum == 4
\* how many times the user of the data panel changes the mode, uploads a
\* file, and asks for an analysis (by the Send button or an action button)
MaxModeChanges == 2
MaxUploads == 1
MaxAsks == 2
\* how many timers and backend calls may still be pending when the user asks
\* for an analysis
MaxPending == 0

\* the requests, numbered in order of arrival
Reqs == {1, 2}
\* the values of Math.random().toString(36).substr(2, 9)
Suffixes == {"a", "b"}

(* ---------------------------- file names ------------------------------ *)
\* A file name is <<prefix, middle, extension>>; its text is the three joined.

Digits == <<"0", "1", "2", "3", "4", "5", "6", "7", "8", "9">>

\* f'chart_{fig_count}.png'
ChartName(i) == <<"chart_", Digits[i + 1], ".png">>
CsvName == <<"", "data", ".csv">>
ScriptName == <<"", "script", ".py">>
\* names a fragment may write itself (plt.savefig('chart_correlation.png'), ...)
CorrelationName == <<"chart_", "correlation", ".png">>
SummaryName == <<"chart_", "summary", ".txt">>
HeatmapName == <<"", "heatmap", ".png">>
\* the sets of files one fragment writes
DirectSets == {{}, {CorrelationName}, {ChartName(0)}, {SummaryName, HeatmapName}}

\* file.startsWith('chart_') && file.endsWith('.png')
IsChartFile(file) == file[1] = "chart_" /\ file[3] = ".png"

(* ------------------------------ texts --------------------------------- *)
Range(seq) == {seq[i] : i \in 1..Len(seq)}
\* A text is a sequence of pieces; s.includes(w) holds when w is one of them.

Includes(text, piece) == \E i \in 1..Len(text) : text[i] = piece

NoText == <<>>
WarningText == <<"User", "Warning", ": Tight layout not applied">>
NoticeText == <<"Matplotlib is building the font cache">>
TracebackText == <<"Traceback", "KeyError: 'price'">>
NotFoundText == <<"/bin/sh: python3: not found">>
NoDirText == <<"/bin/sh: cd: No such file or directory">>

(* --------------------------- request bodies --------------------------- *)
\* A field of req.body: absent (undefined) or a text, possibly the empty one.

Absent == [present |-> FALSE, text |-> NoText]
EmptyField == [present |-> TRUE, text |-> NoText]
CsvField == [present |-> TRUE, text |-> <<"a,b", "1,2", "3,4">>]
CodeField == [present |-> TRUE, text |-> <<"plt.figure()">>]
Bodies == [csvData : {Absent, EmptyField, CsvField}, pythonCode : {Absent, EmptyField, CodeField}]
NoBody == [csvData |-> Absent, pythonCode |-> Absent]

\* Falsy with a slip: only undefined is rejected
Falsy_undefinedOnly(field) == ~field.present
\* !x for a string-or-undefined x
Falsy(field) == ~field.present \/ field.text = NoText

(* ---------------------------- file system ----------------------------- *)
\* jobId = `job_${Date.now()}_${Math.random().toString(36).substr(2, 9)}`
JobIds == (0..(MaxClock - 1)) \X Suffixes
NoJob == <<-1, "">>

\* A directory: whether it exists, and its files as <<name, content>> pairs.
\* A content is <<writer, kind, k>>.
NoDir == [exists |-> FALSE, files |-> {}]
EmptyDir == [exists |-> TRUE, files |-> {}]

Names(dir) == {f[1] : f \in dir.files}
ContentOf(dir, name) == (CHOOSE f \in dir.files : f[1] = name)[2]

\* fs.mkdirSync(jobDir, { recursive: true }): no error when the directory exists
Mkdir(dir) == IF dir.exists THEN dir ELSE EmptyDir

\* fs.writeFileSync / savefig: creates the file or replaces its content
WriteFile(dir, name, content) ==
  [dir EXCEPT !.files = {f \in dir.files : f[1] # name} \cup {<<name, content>>}]

RECURSIVE WriteAll(_, _)
WriteAll(dir, files) ==
  IF files = {} THEN dir
  ELSE LET f == CHOOSE g \in files : TRUE
       IN WriteAll(WriteFile(dir, f[1], f[2]), files \ {f})

\* fs.rmSync(jobDir, { recursive: true, force: true })
RmDir(dir) == NoDir

(* ---------------------------- interpreter ----------------------------- *)
\* What one run of script.py does: exit code, standard error, the number of
\* figures open when the fragment ends, the files the fragment writes itself.

\* (a fragment that writes files itself leaves at most one figure open and
\* writes nothing to standard error)
Ran ==
  {o \in [exit : {0}, stderr : {NoText, WarningText, NoticeText},
          figs : 0..MaxFigs, direct : DirectSets] :
     o.direct # {} => o.figs <= 1 /\ o.stderr = NoText}
Raised ==
  [exit : {1}, stderr : {NoText, TracebackText}, figs : {0}, direct : {{}}]
\* /bin/sh finds no python3
NotSpawned == [exit |-> 127, stderr |-> NotFoundText, figs |-> 0, direct |-> {}]
\* the working directory is gone
NoCwd == [exit |-> 1, stderr |-> NoDirText, figs |-> 0, direct |-> {}]
NoRun == [exit |-> -1, stderr |-> NoText, figs |-> 0, direct |-> {}]
Outcomes == Ran \cup Raised \cup {NotSpawned}

\* the files of one run: the fragment's own, then the epilogue's chart_0..chart_(figs-1)
\* (for i in plt.get_fignums(): fig.savefig(f'chart_{fig_count}.png'); fig_count += 1)
\* EpilogueFiles with a slip: fig_count starts at 1
EpilogueFiles_fromOne(r, out) ==
  {<<ChartName(k + 1), <<r, "figure", k>>>> : k \in 0..(out.figs - 1)}
EpilogueFiles(r, out) ==
  {<<ChartName(k), <<r, "figure", k>>>> : k \in 0..(out.figs - 1)}
FragmentFiles(r, out) == {<<n, <<r, "direct", 0>>>> : n \in out.direct}
RunScript(dir, r, out) == WriteAll(WriteAll(dir, FragmentFiles(r, out)), EpilogueFiles(r, out))

(* ----------------------------- responses ------------------------------ *)

\* `data:image/png;base64,${imageBuffer.toString('base64')}`
DataUri(content) == <<"data:image/png;base64,", <<"base64", content>>>>

NoResponse ==
  [status |-> 0, keys |-> {}, error |-> "", details |-> NoText, chartImages |-> <<>>,
   chartsGenerated |-> -1, stdout |-> -1]
\* res.status(400).json({ error: "csvData and pythonCode are required" })
BadRequest ==
  [NoResponse EXCEPT !.status = 400, !.keys = {"error"},
                     !.error = "csvData and pythonCode are required"]
\* res.status(500).json({ error, details: e.message, suggestion })
Failure(message) ==
  [NoResponse EXCEPT !.status = 500, !.keys = {"error", "details", "suggestion"},
                     !.error = "Failed to execute Python code", !.details = message]
\* Success with a slip: the count is the one the script printed
Success_printedCount(images, printed) ==
  [NoResponse EXCEPT !.status = 200,
                     !.keys = {"chartImages", "chartsGenerated", "message", "stdout"},
                     !.chartImages = images, !.chartsGenerated = printed,
                     !.stdout = printed]
\* res.json({ chartImages, chartsGenerated: chartImages.length, message, stdout })
Success(images, printed) ==
  [NoResponse EXCEPT !.status = 200,
                     !.keys = {"chartImages", "chartsGenerated", "message", "stdout"},
                     !.chartImages = images, !.chartsGenerated = Len(images),
                     !.stdout = printed]

\* the message of the error child_process.exec rejects with
ExecError(stderr) == <<"Command failed: ", "cd jobDir && python3 script.py", "\n">> \o stderr
\* new Error(`Python execution failed: ${stderr}`)
StderrError(stderr) == <<"Python execution failed: ">> \o stderr
FsError(call) == <<call, ": ", "EACCES">>

\* the orders a directory listing may come in
Orders(S) ==
  {s \in [1..Cardinality(S) -> S] : \A i, j \in 1..Cardinality(S) : i # j => s[i] # s[j]}

(* ------------------------- live sync settings ------------------------- *)

\* syncId = `sync_${Date.now()}_${Math.random().toString(36).substr(2, 9)}`
SyncIds == (0..MaxClock) \X Suffixes
NoSync == <<-1, "">>

SheetField == [present |-> TRUE, text |-> <<"sheet-1">>]
RangeField == [present |-> TRUE, text |-> <<"A1:D5">>]
\* refreshInterval || 3600000
DefaultRefreshInterval == 3600000
\* a refreshInterval a caller asks for; 0 stands for none
AskedRefreshInterval == 60000
\* req.body of /setup-live-sync
SetupBodies ==
  [sheetId : {Absent, SheetField}, range : {EmptyField, RangeField},
   refreshInterval : {0, AskedRefreshInterval}]
\* req.body of /fetch-sheet-data (a body that is rejected needs no syncId)
FetchBodies ==
  {b \in [sheetId : {Absent, SheetField}, range : {EmptyField, RangeField},
          syncId : SyncIds \cup {NoSync}] :
     ~b.sheetId.present \/ b.range = EmptyField => b.syncId = NoSync}

\* liveSyncConfigs.get(syncId) of a key that was never set
NoConfig == [sheetId |-> NoText, range |-> NoText, refreshInterval |-> 0, lastSync |-> -1]
\* the last answer of the three live sync routes
NoReply ==
  [route |-> "", status |-> 0, syncId |-> NoSync, lastSync |-> -1, nextSync |-> -1]

\* Refresh with a slip: the entry is dropped instead of stamped
Refresh_evicts(configs, syncId, now) == [configs EXCEPT ![syncId] = NoConfig]
\* config.lastSync = new Date(); liveSyncConfigs.set(syncId, config)
Refresh(configs, syncId, now) == [configs EXCEPT ![syncId].lastSync = now]

(* -------------------------- bearer middleware ------------------------- *)

\* the invocations of the middleware
Calls == {1, 2}

\* req.header("Authorization") as pieces: scheme, separator, token
Schemes == {"Bearer", "Beerer"}
Tokens == {"TOKEN", "OTHER_TOKEN"}
Headers ==
  {Absent} \cup {[present |-> TRUE, text |-> <<scheme, " ">>] : scheme \in Schemes}
           \cup {[present |-> TRUE, text |-> <<scheme, " ", token>>] :
                   scheme \in Schemes, token \in Tokens}

\* what a token extraction gives: a token, or an AuthorizationError with a message
Token(token) == [threw |-> FALSE, message |-> "", token |-> token]
AuthorizationError(message) == [threw |-> TRUE, message |-> message, token |-> ""]
NotExtracted == [threw |-> FALSE, message |-> "", token |-> ""]
MissingHeader == "Missing the \"Authorization\" header"
MissingToken == "Missing a \"Bearer\" token in the \"Authorization\" header"

\* GetTokenFromHttpHeader with a slip: the scheme is not looked at
GetTokenFromHttpHeader_anyScheme(header) ==
  IF ~header.present THEN AuthorizationError(MissingHeader)
  ELSE IF Len(header.text) = 3
       THEN Token(header.text[3])
       ELSE AuthorizationError(MissingToken)
GetTokenFromHttpHeader(header) ==
  IF ~header.present THEN AuthorizationError(MissingHeader)
  ELSE IF header.text[1] = "Bearer" /\ Len(header.text) = 3
       THEN Token(header.text[3])
       ELSE AuthorizationError(MissingToken)

\* the getTokenFromRequest a caller passes in instead: it resolves or rejects
FakeExtractions == {Token("TOKEN"), AuthorizationError("Fake error")}

\* what verify resolves to
Undefined == "undefined"
NotAsked == "not asked"
Users == {Undefined, "user-1"}
\* Verified with a slip: the value verify resolved to is not looked at
Verified_always(user) == TRUE
Verified(user) == user # Undefined

\* res.status(401).json({ error: "unauthorized", message })
Unauthorized(message) == [error |-> "unauthorized", message |-> message]

NoCall ==
  [pc |-> "idle", header |-> Absent, extractor |-> "", extracted |-> NotExtracted,
   user |-> NotAsked, headerReads |-> <<>>, statusCalls |-> <<>>, jsonCalls |-> <<>>,
   nextCalls |-> 0]

(* ------------------------- remaining credits -------------------------- *)

PURCHASE_URL == "https://example.com"
PurchaseLink == "Link: Purchase more credits"

\* RemainingCreditsText and the link, as RemainingCredits renders them
\* Rendered with a slip: the link is not rendered while the app loads
Rendered_linkAfterLoading(loadingApp, remainingCredits) ==
  IF loadingApp THEN {"TextPlaceholder"}
  ELSE {IF remainingCredits > 0 THEN "Use 1 of N credits" ELSE "No credits remaining.",
        PurchaseLink}
Rendered(loadingApp, remainingCredits) ==
  {IF loadingApp THEN "TextPlaceholder"
   ELSE IF remainingCredits > 0 THEN "Use 1 of N credits" ELSE "No credits remaining.",
   PurchaseLink}

\* useAppContext() when the app starts
StartContext == [loadingApp |-> TRUE, remainingCredits |-> 0]
Contexts == [loadingApp : BOOLEAN, remainingCredits : 0..MaxCredits]

(* ------------------------ the script's epilogue ----------------------- *)

FigNums == 1..MaxFigNum
\* the figures open when the fragment ends, by number, in the order they were made
OpenFigures ==
  {created \in UNION {[1..n -> FigNums] : n \in 0..MaxFigNum} :
     \A i, j \in 1..Len(created) : i # j => created[i] # created[j]}
\* plt.get_fignums(): the numbers of the open figures, ascending
GetFignums(open) ==
  CHOOSE nums \in [1..Cardinality(open) -> open] :
    \A i, j \in 1..Cardinality(open) : i < j => nums[i] < nums[j]
NoEpilogue ==
  [pc |-> "fragment", created |-> <<>>, open |-> {}, todo |-> <<>>, fig_count |-> 0,
   saved |-> <<>>, printed |-> -1]

(* ----------------------- the model-backed routes ---------------------- *)

\* the requests to the routes that call the model
Asks == {1, 2}
Routes ==
  {"analyze-csv", "natural-language-chart", "apply-formula", "chat-orchestrator",
   "generate-predictions", "detect-anomalies", "generate-data-story",
   "insight-recommendations"}
\* the fields `if (!...)` tests
Required(route) ==
  CASE route = "natural-language-chart" -> {"csvData", "query"}
    [] route = "apply-formula" -> {"csvData", "formula"}
    [] route = "chat-orchestrator" -> {"message"}
    [] OTHER -> {"csvData"}
\* the routes whose try block cleans parsed.python_code
CleansPythonCode(route) == route \notin {"chat-orchestrator", "insight-recommendations"}
\* req.body: the required fields that are missing or empty, and what
\* customGraphs is (only /analyze-csv reads it)
LlmBodies(route) ==
  [missing : SUBSET Required(route),
   customGraphs : IF route = "analyze-csv" THEN {"undefined", "string", "number"}
                  ELSE {"undefined"}]
\* what callOpenAI settles with: it rejects (network, !response.ok, no
\* choices), or it resolves with the message content
Replies ==
  {"rejected", "null", "not JSON", "JSON", "JSON without fields",
   "JSON python_code not a string"}
NoAsk ==
  [pc |-> "idle", route |-> "", body |-> [missing |-> {}, customGraphs |-> "undefined"],
   modelCalls |-> 0, reply |-> "", status |-> 0, fallback |-> FALSE, sent |-> 0]

(* --------------------------- the data panel --------------------------- *)

Modes == {"chat", "upload"}
AnalysisSteps == {"none", "cleaning", "exploration", "visualization", "correlation", "advanced"}
\* what the user types, by the words processChatInput looks for
Inputs == {"all", "correlation", "chart", "clean", "other"}
\* the calls to the backend the panel awaits
Ops == {"clean", "visualize", "correlation", "predictive", "anomaly", "nlchart", "orchestrator"}
\* what an awaited call settles with
OutcomesOf(op) ==
  CASE op = "clean" -> {"resolved", "rejected"}
    [] op = "orchestrator" -> {"chart request", "reply", "rejected"}
    [] OTHER -> {"charts", "no charts", "rejected"}
PanelOutcomes == UNION {OutcomesOf(op) : op \in Ops}

\* useState<DataState>(...): csvData and chartImages by whether they are empty
StartDataState ==
  [csvData |-> FALSE, chartImages |-> FALSE, isProcessing |-> FALSE,
   currentMode |-> "chat", isTyping |-> FALSE, hasIntroduced |-> FALSE,
   analysisStep |-> "none", completedAnalyses |-> <<>>]

Remove(seq, i) == SubSeq(seq, 1, i - 1) \o SubSeq(seq, i + 1, Len(seq))
Largest(S) == CHOOSE x \in S : \A y \in S : y <= x

(* ------------------------------- state -------------------------------- *)

VARIABLES
  clock,      \* Date.now()
  fs,         \* the temp directory: job id -> directory
  phase,      \* per request: "idle", "running", "looping", "exited", "done"
  body,       \* per request: req.body
  jobId,      \* per request: the job id allocated, NoJob before
  run,        \* per request: what its interpreter run did, NoRun before it exits
  chartFiles, \* per request: the chart file names collected, in listing order
  response,   \* per request: the response sent, NoResponse before
  timer,      \* per request: the cleanup timer: "none", "armed", "due", "fired"
  effects,    \* per request: directories made, files written, interpreters started
  liveSyncConfigs, \* the map of live sync settings: sync id -> config
  syncReply,  \* the last answer of a live sync route
  mw,         \* per middleware invocation: where it is and what it called
  credits,    \* RemainingCredits: the app context, what is rendered, the urls opened
  epilogue,   \* one run of the composed script's epilogue
  llm,        \* per request to a model-backed route: where it is and what it sent
  dataState,     \* DataInfographicPanel: useState<DataState>
  chatMessages,  \* DataInfographicPanel: useState<ChatMessage[]>
  pendingTimers, \* the panel's setTimeout callbacks not yet run, in the order set
  pendingCalls,  \* the backend calls the panel awaits
  taps           \* how many times the user has acted on the panel

vars == <<clock, fs, phase, body, jobId, run, chartFiles, response, timer, effects,
          liveSyncConfigs, syncReply, mw, credits, epilogue, llm,
          dataState, chatMessages, pendingTimers, pendingCalls, taps>>
execVars == <<fs, phase, body, jobId, run, chartFiles, response, timer, effects>>
syncVars == <<liveSyncConfigs, syncReply>>
authVars == <<mw>>
creditVars == <<credits>>
figVars == <<epilogue>>
llmVars == <<llm>>
panelVars == <<dataState, chatMessages, pendingTimers, pendingCalls, taps>>
\* what the steps of one part leave alone: the variables of the other parts
besidesExec == <<syncVars, authVars, creditVars, figVars, llmVars, panelVars>>
besidesSync == <<execVars, authVars, creditVars, figVars, llmVars, panelVars>>
besidesAuth == <<execVars, syncVars, creditVars, figVars, llmVars, panelVars>>
besidesCredits == <<execVars, syncVars, authVars, figVars, llmVars, panelVars>>
besidesEpilogue == <<execVars, syncVars, authVars, creditVars, llmVars, panelVars>>
besidesLlm == <<execVars, syncVars, authVars, creditVars, figVars, panelVars>>
besidesPanel == <<execVars, syncVars, authVars, creditVars, figVars, llmVars>>

NoEffects == [mkdirs |-> 0, writes |-> 0, spawns |-> 0]

\* request r is the next to arrive
Arrives(r) == phase[r] = "idle" /\ \A q \in Reqs : q < r => phase[q] # "idle"

Init ==
  /\ clock = 0
  /\ fs = [id \in JobIds |-> NoDir]
  /\ phase = [r \in Reqs |-> "idle"]
  /\ body = [r \in Reqs |-> NoBody]
  /\ jobId = [r \in Reqs |-> NoJob]
  /\ run = [r \in Reqs |-> NoRun]
  /\ chartFiles = [r \in Reqs |-> <<>>]
  /\ response = [r \in Reqs |-> NoResponse]
  /\ timer = [r \in Reqs |-> "none"]
  /\ effects = [r \in Reqs |-> NoEffects]
  /\ liveSyncConfigs = [id \in SyncIds |-> NoConfig]
  /\ syncReply = NoReply
  /\ mw = [c \in Calls |-> NoCall]
  /\ credits = [context |-> StartContext,
                view |-> Rendered(StartContext.loadingApp, StartContext.remainingCredits),
                clicks |-> <<>>, opened |-> <<>>]
  /\ epilogue = NoEpilogue
  /\ llm = [a \in Asks |-> NoAsk]
  \* the panel after its first render: the introduction effect has run
  /\ dataState = [StartDataState EXCEPT !.isTyping = TRUE]
  /\ chatMessages = <<>>
  /\ pendingTimers = <<[kind |-> "intro", at |-> 0, delay |-> 1500]>>
  /\ pendingCalls = <<>>
  /\ taps = [modes |-> 0, uploads |-> 0, asks |-> 0]

(* ------------------------------ actions ------------------------------- *)

\* time passes: Date.now() moves on and the armed timers (5000 ms) come due
Tick ==
  /\ clock < MaxClock \/ \E r \in Reqs : timer[r] = "armed"
  /\ clock' = IF clock < MaxClock THEN clock + 1 ELSE clock
  /\ timer' = [r \in Reqs |-> IF timer[r] = "armed" THEN "due" ELSE timer[r]]
  /\ UNCHANGED <<fs, phase, body, jobId, run, chartFiles, response, effects>>
  /\ UNCHANGED besidesExec

\* the handler up to its 400 response
Reject(r, b) ==
  /\ Arrives(r)
  /\ Falsy(b.csvData) \/ Falsy(b.pythonCode)
  /\ body' = [body EXCEPT ![r] = b]
  /\ response' = [response EXCEPT ![r] = BadRequest]
  /\ phase' = [phase EXCEPT ![r] = "done"]
  /\ UNCHANGED <<clock, fs, jobId, run, chartFiles, timer, effects>>
  /\ UNCHANGED besidesExec

\* the job id of a request arriving now
NewJobId(suffix) == <<clock, suffix>>

\* the calls of lines 797-847 that are made and return when `fault` is the one
\* that throws: a throw leaves the try block for the catch block at once
\* Completed with a slip: a failed write of data.csv is ignored
Completed_pastThrow(fault) ==
  CASE fault = "mkdir" -> {}
    [] fault = "writeCsv" -> {"mkdir", "writeScript", "exec"}
    [] fault = "writeScript" -> {"mkdir", "writeCsv"}
    [] OTHER -> {"mkdir", "writeCsv", "writeScript", "exec"}
\* Completed with a slip: the interpreter is started without script.py written
Completed_noScript(fault) ==
  CASE fault = "mkdir" -> {}
    [] fault = "writeCsv" -> {"mkdir"}
    [] fault = "writeScript" -> {"mkdir", "writeCsv"}
    [] OTHER -> {"mkdir", "writeCsv", "exec"}
Completed(fault) ==
  CASE fault = "mkdir" -> {}
    [] fault = "writeCsv" -> {"mkdir"}
    [] fault = "writeScript" -> {"mkdir", "writeCsv"}
    [] OTHER -> {"mkdir", "writeCsv", "writeScript", "exec"}

\* the handler from the job id to `await execAsync(...)`; `fault` is the file
\* system call that throws, if any (the suffixes are interchangeable: the
\* first one drawn is called "a")
Allocate(r, b, suffix, fault) ==
  /\ Arrives(r)
  /\ clock < MaxClock
  /\ ~(Falsy(b.csvData) \/ Falsy(b.pythonCode))
  /\ (\A q \in Reqs : jobId[q] = NoJob) => suffix = "a"
  /\ LET id == NewJobId(suffix)
         calls == Completed(fault)
         made == IF "mkdir" \in calls THEN Mkdir(fs[id]) ELSE fs[id]
         withCsv == IF "writeCsv" \in calls
                    THEN WriteFile(made, CsvName, <<r, "csv", 0>>) ELSE made
         withScript == IF "writeScript" \in calls
                       THEN WriteFile(withCsv, ScriptName, <<r, "script", 0>>) ELSE withCsv
     IN /\ body' = [body EXCEPT ![r] = b]
        /\ jobId' = [jobId EXCEPT ![r] = id]
        /\ fs' = [fs EXCEPT ![id] = withScript]
        /\ effects' = [effects EXCEPT
                         ![r].mkdirs = @ + Cardinality(calls \cap {"mkdir"}),
                         ![r].writes = @ + Cardinality(calls \cap {"writeCsv", "writeScript"}),
                         ![r].spawns = @ + Cardinality(calls \cap {"exec"})]
        /\ IF "exec" \in calls
           THEN /\ response' = response
                /\ phase' = [phase EXCEPT ![r] = "running"]
           ELSE /\ response' = [response EXCEPT ![r] =
                                  Failure(FsError(IF fault = "mkdir" THEN "mkdir" ELSE "open"))]
                /\ phase' = [phase EXCEPT ![r] = "done"]
  /\ UNCHANGED <<clock, run, chartFiles, timer>>
  /\ UNCHANGED besidesExec

\* the interpreter runs script.py in the job directory and exits
PythonExit(r, out) ==
  /\ phase[r] = "running"
  /\ LET id == jobId[r]
         did == IF fs[id].exists THEN out ELSE NoCwd
     IN /\ run' = [run EXCEPT ![r] = did]
        /\ fs' = [fs EXCEPT ![id] = IF fs[id].exists THEN RunScript(fs[id], r, out) ELSE @]
  /\ phase' = [phase EXCEPT ![r] = "exited"]
  /\ UNCHANGED <<clock, body, jobId, chartFiles, response, timer, effects>>
  /\ UNCHANGED besidesExec

\* the fragment never ends (while True: pass)
PythonLoop(r) ==
  /\ phase[r] = "running"
  /\ phase' = [phase EXCEPT ![r] = "looping"]
  /\ UNCHANGED <<clock, fs, body, jobId, run, chartFiles, response, timer, effects>>
  /\ UNCHANGED besidesExec

\* ExecRejects with a slip: the exit code is ignored
ExecRejects_never(out) == FALSE
\* execAsync rejects: the shell command exited with a non-zero code
ExecRejects(out) == out.exit # 0

\* if (stderr && !stderr.includes('Warning'))
StderrFails(stderr) == stderr # NoText /\ ~Includes(stderr, "Warning")

\* Catch with a slip: the handler is entered again instead of answering
Catch_retry(r, message) ==
  /\ response' = response
  /\ phase' = [phase EXCEPT ![r] = "idle"]
  /\ timer' = timer
\* the catch block: a 500 response, and nothing else
Catch(r, message) ==
  /\ response' = [response EXCEPT ![r] = Failure(message)]
  /\ phase' = [phase EXCEPT ![r] = "done"]
  /\ timer' = timer

\* chartFiles.map(file => `data:image/png;base64,${fs.readFileSync(...).toString('base64')}`)
ChartImages(dir, files) == [i \in 1..Len(files) |-> DataUri(ContentOf(dir, files[i]))]

\* the handler after `await execAsync(...)`: the stderr test, the collection of
\* the chart files, the cleanup timer and the response; or the catch block
Resume(r) ==
  /\ phase[r] = "exited"
  /\ LET out == run[r]
         id == jobId[r]
         dir == fs[id]
     IN IF ExecRejects(out)
        THEN /\ Catch(r, ExecError(out.stderr))
             /\ UNCHANGED chartFiles
        ELSE IF StderrFails(out.stderr)
        THEN /\ Catch(r, StderrError(out.stderr))
             /\ UNCHANGED chartFiles
        ELSE IF ~dir.exists
        THEN /\ Catch(r, FsError("scandir"))
             /\ UNCHANGED chartFiles
        ELSE \E files \in Orders({n \in Names(dir) : IsChartFile(n)}), readThrows \in BOOLEAN :
               /\ IF readThrows /\ files # <<>>
                  THEN /\ Catch(r, FsError("open"))
                       /\ chartFiles' = chartFiles
                  ELSE /\ chartFiles' = [chartFiles EXCEPT ![r] = files]
                       /\ timer' = [timer EXCEPT ![r] = "armed"]
                       /\ response' = [response EXCEPT ![r] =
                                         Success(ChartImages(dir, files), out.figs)]
                       /\ phase' = [phase EXCEPT ![r] = "done"]
  /\ UNCHANGED <<clock, fs, body, jobId, run, effects>>
  /\ UNCHANGED besidesExec

\* AfterRmSync with a slip: the catch clause of the callback answers with an error
AfterRmSync_answers(r, ok) ==
  IF ok THEN response ELSE [response EXCEPT ![r] = Failure(FsError("rm"))]
\* the responses after the callback's try block: catch (cleanupError) only
\* calls console.warn
AfterRmSync(r, ok) == response

\* the timer callback: rmSync in a try block; `ok` is whether rmSync succeeds
Cleanup(r, ok) ==
  /\ timer[r] = "due"
  /\ timer' = [timer EXCEPT ![r] = "fired"]
  /\ LET id == jobId[r]
     IN /\ fs' = [fs EXCEPT ![id] = IF ok THEN RmDir(@) ELSE @]
  /\ response' = AfterRmSync(r, ok)
  /\ UNCHANGED <<clock, phase, body, jobId, run, chartFiles, effects>>
  /\ UNCHANGED besidesExec

Faults == {"none", "mkdir", "writeCsv", "writeScript"}

Next ==
  \/ Tick
  \/ \E r \in Reqs, b \in Bodies : Reject(r, b)
  \/ \E r \in Reqs, b \in Bodies, suffix \in Suffixes, fault \in Faults :
       Allocate(r, b, suffix, fault)
  \/ \E r \in Reqs, out \in Outcomes : PythonExit(r, out)
  \/ \E r \in Reqs : PythonLoop(r)
  \/ \E r \in Reqs : Resume(r)
  \/ \E r \in Reqs, ok \in BOOLEAN : Cleanup(r, ok)

Spec == Init /\ [][Next]_vars

\* The event loop runs every callback that is ready, time passes, and an
\* interpreter whose fragment ends does exit. Requests arrive or do not.
FairSpec ==
  /\ Spec
  /\ WF_vars(Tick)
  /\ \A r \in Reqs : WF_vars(\E out \in Outcomes : PythonExit(r, out))
  /\ \A r \in Reqs : WF_vars(Resume(r))
  /\ \A r \in Reqs : WF_vars(\E ok \in BOOLEAN : Cleanup(r, ok))

TypeOK ==
  /\ clock \in 0..MaxClock
  /\ \A r \in Reqs :
       /\ phase[r] \in {"idle", "running", "looping", "exited", "done"}
       /\ timer[r] \in {"none", "armed", "due", "fired"}
       /\ response[r].status \in {0, 200, 400, 500}

(* ------------------------ live sync: the routes ----------------------- *)

NewSyncId(suffix) == <<clock, suffix>>

\* POST /setup-live-sync
SetupLiveSync(b, suffix) ==
  /\ IF Falsy(b.sheetId) \/ Falsy(b.range)
     THEN /\ syncReply' = [NoReply EXCEPT !.route = "setup-live-sync", !.status = 400]
          /\ liveSyncConfigs' = liveSyncConfigs
     ELSE LET syncId == NewSyncId(suffix)
              config == [sheetId |-> b.sheetId.text,
                         range |-> b.range.text,
                         refreshInterval |-> IF b.refreshInterval = 0
                                             THEN DefaultRefreshInterval
                                             ELSE b.refreshInterval,
                         lastSync |-> clock]
          IN /\ liveSyncConfigs' = [liveSyncConfigs EXCEPT ![syncId] = config]
             /\ syncReply' = [NoReply EXCEPT !.route = "setup-live-sync", !.status = 200,
                                             !.syncId = syncId,
                                             !.nextSync = clock + config.refreshInterval]
  /\ UNCHANGED <<clock, besidesSync>>

\* POST /fetch-sheet-data
FetchSheetData(b) ==
  /\ IF Falsy(b.sheetId) \/ Falsy(b.range)
     THEN /\ syncReply' = [NoReply EXCEPT !.route = "fetch-sheet-data", !.status = 400]
          /\ liveSyncConfigs' = liveSyncConfigs
     ELSE /\ liveSyncConfigs' =
               IF b.syncId # NoSync /\ liveSyncConfigs[b.syncId] # NoConfig
               THEN Refresh(liveSyncConfigs, b.syncId, clock)
               ELSE liveSyncConfigs
          /\ syncReply' = [NoReply EXCEPT !.route = "fetch-sheet-data", !.status = 200,
                                          !.lastSync = clock]
  /\ UNCHANGED <<clock, besidesSync>>

\* GET /sync-status/:syncId
SyncStatus(syncId) ==
  /\ LET config == liveSyncConfigs[syncId]
     IN IF config = NoConfig
        THEN syncReply' = [NoReply EXCEPT !.route = "sync-status", !.status = 404]
        ELSE syncReply' = [NoReply EXCEPT !.route = "sync-status", !.status = 200,
                                          !.syncId = syncId,
                                          !.lastSync = config.lastSync,
                                          !.nextSync = config.lastSync + config.refreshInterval]
  /\ UNCHANGED <<clock, liveSyncConfigs, besidesSync>>

SyncNext ==
  \/ Tick
  \/ \E b \in SetupBodies, suffix \in Suffixes : SetupLiveSync(b, suffix)
  \/ \E b \in FetchBodies : FetchSheetData(b)
  \/ \E syncId \in SyncIds : SyncStatus(syncId)

SyncSpec == Init /\ [][SyncNext]_vars

(* ------------------- bearer middleware: an invocation ----------------- *)

\* invocation c is the next to be made
Invoked(c) == mw[c].pc = "idle" /\ \A d \in Calls : d < c => mw[d].pc # "idle"

\* middleware(req, res, next) is called
Invoke(c, header, extractor) ==
  /\ Invoked(c)
  /\ mw' = [mw EXCEPT ![c].pc = "extract", ![c].header = header,
                      ![c].extractor = extractor]
  /\ UNCHANGED <<clock, besidesAuth>>

\* getTokenFromRequest(req) settles
Extract(c, fake) ==
  /\ mw[c].pc = "extract"
  /\ LET fromHeader == mw[c].extractor = "getTokenFromHttpHeader"
         result == IF fromHeader THEN GetTokenFromHttpHeader(mw[c].header) ELSE fake
         reads == IF fromHeader THEN <<"Authorization">> ELSE <<>>
     IN mw' = [mw EXCEPT
                 ![c].extracted = result,
                 ![c].headerReads = @ \o reads,
                 ![c].pc = IF result.threw THEN "done" ELSE "verify",
                 ![c].statusCalls = IF result.threw THEN Append(@, 401) ELSE @,
                 ![c].jsonCalls = IF result.threw
                                  THEN Append(@, Unauthorized(result.message)) ELSE @]
  /\ UNCHANGED <<clock, besidesAuth>>

\* verify(token) resolves
Verify(c, user) ==
  /\ mw[c].pc = "verify"
  /\ mw' = [mw EXCEPT
              ![c].user = user,
              ![c].pc = "done",
              ![c].nextCalls = IF Verified(user) THEN @ + 1 ELSE @,
              ![c].statusCalls = IF Verified(user) THEN @ ELSE Append(@, 401),
              ![c].jsonCalls = IF Verified(user)
                               THEN @ ELSE Append(@, Unauthorized("Token is invalid"))]
  /\ UNCHANGED <<clock, besidesAuth>>

Extractors == {"getTokenFromHttpHeader", "getTokenFromRequest"}

AuthNext ==
  \/ \E c \in Calls, header \in Headers, extractor \in Extractors :
       Invoke(c, header, extractor)
  \/ \E c \in Calls, fake \in FakeExtractions : Extract(c, fake)
  \/ \E c \in Calls, user \in Users : Verify(c, user)

AuthSpec == Init /\ [][AuthNext]_vars

(* ------------------ remaining credits: the component ------------------ *)

\* the app context changes and the component renders again
ContextChanges(context) ==
  /\ context # credits.context
  /\ credits' = [credits EXCEPT
                   !.context = context,
                   !.view = Rendered(context.loadingApp, context.remainingCredits)]
  /\ UNCHANGED <<clock, besidesCredits>>

\* openExternalUrl(url): await requestOpenExternalUrl({ url })
OpenExternalUrl(url) == Append(credits.opened, url)

\* the link is activated: requestOpenExternalUrl={() => openExternalUrl(PURCHASE_URL)}
ClickPurchaseLink ==
  /\ PurchaseLink \in credits.view
  /\ Len(credits.clicks) < MaxClicks
  /\ credits' = [credits EXCEPT !.clicks = Append(@, credits.context),
                                !.opened = OpenExternalUrl(PURCHASE_URL)]
  /\ UNCHANGED <<clock, besidesCredits>>

CreditsNext ==
  \/ \E context \in Contexts : ContextChanges(context)
  \/ ClickPurchaseLink

CreditsSpec == Init /\ [][CreditsNext]_vars

(* ------------------- the script's epilogue: one run ------------------- *)

\* the fragment ends with these figures open; fig_count = 0 and the loop
\* takes plt.get_fignums()
FragmentEnds(created) ==
  /\ epilogue.pc = "fragment"
  /\ epilogue' = [epilogue EXCEPT !.pc = "loop", !.created = created,
                                  !.open = Range(created),
                                  !.todo = GetFignums(Range(created)),
                                  !.fig_count = 0]
  /\ UNCHANGED <<clock, besidesEpilogue>>

\* one turn of the loop: fig = plt.figure(i); fig.savefig(f'chart_{fig_count}.png');
\* fig_count += 1; plt.close(fig)
SaveFigure ==
  /\ epilogue.pc = "loop"
  /\ epilogue.todo # <<>>
  /\ LET i == Head(epilogue.todo)
     IN epilogue' = [epilogue EXCEPT
                       !.saved = Append(@, [name |-> ChartName(epilogue.fig_count),
                                            index |-> epilogue.fig_count, figure |-> i]),
                       !.fig_count = @ + 1,
                       !.open = @ \ {i},
                       !.todo = Tail(@)]
  /\ UNCHANGED <<clock, besidesEpilogue>>

\* print(f"Generated {fig_count} charts")
WriteCount ==
  /\ epilogue.pc = "loop"
  /\ epilogue.todo = <<>>
  /\ epilogue' = [epilogue EXCEPT !.pc = "done", !.printed = epilogue.fig_count]
  /\ UNCHANGED <<clock, besidesEpilogue>>

EpilogueNext ==
  \/ \E created \in OpenFigures : FragmentEnds(created)
  \/ SaveFigure
  \/ WriteCount

EpilogueSpec == Init /\ [][EpilogueNext]_vars

(* ------------------ the model-backed routes: a request ---------------- *)

\* request a is the next to arrive
Asked(a) == llm[a].pc = "idle" /\ \A d \in Asks : d < a => llm[d].pc # "idle"

\* res.status(code).json(...)
Send(a, code, fallback) ==
  [llm EXCEPT ![a].pc = "done", ![a].status = code, ![a].fallback = fallback,
              ![a].sent = @ + 1]

\* the handler up to `await callOpenAI(...)`, or to its 400 or 500 response
Receive(a, route, b) ==
  /\ Asked(a)
  /\ LET got == [llm EXCEPT ![a].route = route, ![a].body = b]
     IN IF b.missing # {}
        THEN llm' = [Send(a, 400, FALSE) EXCEPT ![a].route = route, ![a].body = b]
        ELSE IF b.customGraphs = "number"
        THEN \* customGraphs.trim is not a function: the outer catch
             llm' = [Send(a, 500, FALSE) EXCEPT ![a].route = route, ![a].body = b]
        ELSE llm' = [got EXCEPT ![a].pc = "calling", ![a].modelCalls = @ + 1]
  /\ UNCHANGED <<clock, besidesLlm>>

\* callOpenAI settles and the handler runs to its response
ModelSettles(a, reply) ==
  /\ llm[a].pc = "calling"
  /\ LET got == [llm EXCEPT ![a].reply = reply]
         sent(code, fallback) ==
           [Send(a, code, fallback) EXCEPT ![a].reply = reply]
     IN llm' =
          CASE reply = "rejected" -> sent(500, FALSE)
            [] reply = "null" -> sent(500, FALSE)
            [] reply = "not JSON" -> sent(200, TRUE)
            [] reply = "JSON python_code not a string" ->
                 sent(200, CleansPythonCode(llm[a].route))
            [] OTHER -> sent(200, FALSE)
  /\ UNCHANGED <<clock, besidesLlm>>

LlmNext ==
  \/ \E a \in Asks, route \in Routes : \E b \in LlmBodies(route) : Receive(a, route, b)
  \/ \E a \in Asks, reply \in Replies : ModelSettles(a, reply)

LlmSpec == Init /\ [][LlmNext]_vars

(* ------------------- the data panel: its handlers --------------------- *)

\* the panel's state as one value, so that a handler is a chain of updates
Panel ==
  [ds |-> dataState, chat |-> chatMessages, timers |-> pendingTimers, calls |-> pendingCalls]

\* Date.now() of the task that runs now: later than every instant a message
\* or a pending timer was created at (tasks are at least 1 ms apart; all
\* Date.now() calls of one task give the same millisecond)
DateNow ==
  1 + Largest({0} \cup {chatMessages[i].id : i \in 1..Len(chatMessages)}
                  \cup {pendingTimers[i].at : i \in 1..Len(pendingTimers)})

SetTimeout(st, kind, delay) ==
  [st EXCEPT !.timers = Append(@, [kind |-> kind, at |-> DateNow, delay |-> delay])]

\* addChatMessageWithTyping(role, content, type, data, typingDelay)
AddChatMessageWithTyping(st, role, typingDelay) ==
  IF role = "assistant"
  THEN [SetTimeout(st, "message", typingDelay) EXCEPT !.ds.isTyping = TRUE]
  ELSE [st EXCEPT !.chat = Append(@, [id |-> DateNow, role |-> role, content |-> "input"])]

\* `await` of a backend call: the rest of the function runs when it settles;
\* via tells who awaits the function (a button, processChatInput, its 'all'
\* branch, or a timer callback)
Await(st, op, via) == [st EXCEPT !.calls = Append(@, [op |-> op, via |-> via])]

StartIntroductionSequence(st) ==
  [SetTimeout(st, "intro", 1500) EXCEPT !.ds.isTyping = TRUE]

\* useEffect(..., [currentMode, hasIntroduced, chatMessages.length]) after the
\* render that follows a step
IntroductionEffect(st) ==
  IF /\ <<st.ds.currentMode, st.ds.hasIntroduced, Len(st.chat)>>
          # <<dataState.currentMode, dataState.hasIntroduced, Len(chatMessages)>>
     /\ st.ds.currentMode = "chat" /\ ~st.ds.hasIntroduced /\ Len(st.chat) = 0
  THEN StartIntroductionSequence(st)
  ELSE st

\* the state after a step and the effects of its render
Commit(st) ==
  LET after == IntroductionEffect(st)
  IN /\ dataState' = after.ds
     /\ chatMessages' = after.chat
     /\ pendingTimers' = after.timers
     /\ pendingCalls' = after.calls

PerformDataCleaning(st, via) ==
  Await(AddChatMessageWithTyping(
          [st EXCEPT !.ds.isProcessing = TRUE, !.ds.analysisStep = "cleaning"],
          "assistant", 500),
        "clean", via)

CreateInitialVisualizations(st, via) ==
  IF ~dataState.csvData THEN st
  ELSE Await(AddChatMessageWithTyping(
               [st EXCEPT !.ds.isProcessing = TRUE, !.ds.analysisStep = "visualization"],
               "assistant", 300),
             "visualize", via)

GenerateCorrelationMatrix(st, via) ==
  IF ~dataState.csvData THEN st
  ELSE Await(AddChatMessageWithTyping(
               [st EXCEPT !.ds.isProcessing = TRUE, !.ds.analysisStep = "correlation"],
               "assistant", 500),
             "correlation", via)

GeneratePredictiveAnalysis(st, via) ==
  IF ~dataState.csvData THEN st
  ELSE Await(AddChatMessageWithTyping([st EXCEPT !.ds.isProcessing = TRUE], "assistant", 500),
             "predictive", via)

PerformAnomalyDetection(st, via) ==
  IF ~dataState.csvData THEN st
  ELSE Await(AddChatMessageWithTyping([st EXCEPT !.ds.isProcessing = TRUE], "assistant", 500),
             "anomaly", via)

HandleNaturalLanguageChart(st, via) ==
  IF ~dataState.csvData THEN st
  ELSE Await(AddChatMessageWithTyping([st EXCEPT !.ds.isProcessing = TRUE], "assistant", 500),
             "nlchart", via)

\* generateAnalysisReport: no await; the report itself is appended by a timer
GenerateAnalysisReport(st) ==
  IF ~dataState.csvData THEN AddChatMessageWithTyping(st, "assistant", 500)
  ELSE LET told == AddChatMessageWithTyping([st EXCEPT !.ds.isProcessing = TRUE],
                                            "assistant", 500)
           later == SetTimeout([told EXCEPT !.ds.isProcessing = FALSE], "report", 1000)
       IN [later EXCEPT !.ds.completedAnalyses = Append(@, "report")]

\* the finally block of processChatInput
Finally(st) == [st EXCEPT !.ds.isProcessing = FALSE]

\* what the function that awaited call c does when the call settles
Continue(st, c, outcome) ==
  CASE c.op = "clean" ->
         AddChatMessageWithTyping(
           [st EXCEPT !.ds.isProcessing = FALSE, !.ds.analysisStep = "exploration"],
           "assistant", 1000)
    [] c.op = "visualize" ->
         IF outcome = "charts"
         THEN AddChatMessageWithTyping(
                [st EXCEPT !.ds.chartImages = TRUE, !.ds.isProcessing = FALSE,
                           !.ds.analysisStep = "visualization"],
                "assistant", 800)
         ELSE AddChatMessageWithTyping([st EXCEPT !.ds.isProcessing = FALSE], "assistant", 500)
    [] c.op = "correlation" ->
         IF outcome = "charts"
         THEN [AddChatMessageWithTyping(
                 [st EXCEPT !.ds.chartImages = TRUE, !.ds.isProcessing = FALSE,
                            !.ds.analysisStep = "advanced"],
                 "assistant", 800)
               EXCEPT !.ds.completedAnalyses = Append(@, "correlation")]
         ELSE IF outcome = "no charts" THEN st
         ELSE AddChatMessageWithTyping([st EXCEPT !.ds.isProcessing = FALSE], "assistant", 800)
    [] c.op \in {"predictive", "anomaly"} ->
         IF outcome = "charts"
         THEN [AddChatMessageWithTyping(
                 [st EXCEPT !.ds.chartImages = TRUE, !.ds.isProcessing = FALSE],
                 "assistant", 1000)
               EXCEPT !.ds.completedAnalyses =
                        Append(@, IF c.op = "anomaly" THEN "advanced" ELSE "predictive")]
         ELSE AddChatMessageWithTyping(
                [st EXCEPT !.ds.isProcessing = FALSE], "assistant",
                IF outcome = "no charts" THEN 600 ELSE 800)
    [] c.op = "nlchart" ->
         IF outcome = "charts"
         THEN AddChatMessageWithTyping(
                [st EXCEPT !.ds.chartImages = TRUE, !.ds.isProcessing = FALSE],
                "assistant", 1000)
         ELSE IF outcome = "no charts" THEN st
         ELSE AddChatMessageWithTyping([st EXCEPT !.ds.isProcessing = FALSE], "assistant", 600)
    [] OTHER ->
         IF outcome = "chart request" THEN HandleNaturalLanguageChart(st, "chat")
         ELSE AddChatMessageWithTyping(st, "assistant", IF outcome = "reply" THEN 600 ELSE 500)

\* an awaited backend call settles: the function that awaited it runs to its
\* end, and then the rest of processChatInput if that awaited the function
Settle(i, outcome) ==
  /\ i \in 1..Len(pendingCalls)
  /\ outcome \in OutcomesOf(pendingCalls[i].op)
  /\ LET c == pendingCalls[i]
         inner == Continue([Panel EXCEPT !.calls = Remove(@, i)], c, outcome)
         deferred == IF c.via = "all" THEN SetTimeout(inner, "correlation", 2000) ELSE inner
     IN Commit(IF c.via \in {"chat", "all"} /\ Len(deferred.calls) < Len(pendingCalls)
               THEN Finally(deferred) ELSE deferred)
  /\ UNCHANGED <<clock, taps, besidesPanel>>

\* timer i may run now: no timer set before it with a delay as short, and no
\* timer of the same task with a shorter delay, is still pending
CanFire(i) ==
  \A j \in 1..Len(pendingTimers) :
    j # i =>
      /\ ~(j < i /\ pendingTimers[j].delay <= pendingTimers[i].delay)
      /\ ~(pendingTimers[j].at = pendingTimers[i].at
           /\ pendingTimers[j].delay < pendingTimers[i].delay)

\* a setTimeout callback runs
Fire(i) ==
  /\ i \in 1..Len(pendingTimers)
  /\ CanFire(i)
  /\ LET t == pendingTimers[i]
         st == [Panel EXCEPT !.timers = Remove(@, i)]
     IN Commit(
          CASE t.kind = "message" ->
                 [st EXCEPT !.chat = Append(@, [id |-> t.at, role |-> "assistant",
                                                content |-> "reply"]),
                            !.ds.isTyping = FALSE]
            [] t.kind = "intro" ->
                 [st EXCEPT !.chat = <<[id |-> DateNow, role |-> "assistant",
                                       content |-> "intro"]>>,
                            !.ds.hasIntroduced = TRUE, !.ds.isTyping = FALSE]
            [] t.kind = "clean" -> PerformDataCleaning(st, "timer")
            [] t.kind = "correlation" -> GenerateCorrelationMatrix(st, "timer")
            [] OTHER ->
                 [st EXCEPT !.chat = Append(@, [id |-> DateNow, role |-> "assistant",
                                                content |-> "report"])])
  /\ UNCHANGED <<clock, taps, besidesPanel>>

\* the user asks only when the panel has (almost) settled
Settled == Len(pendingTimers) + Len(pendingCalls) <= MaxPending

\* the user acts once more
Tap(kind, most) == taps[kind] < most /\ taps' = [taps EXCEPT ![kind] = @ + 1]

\* the mode Select (and the buttons that set currentMode)
SelectMode(mode) ==
  /\ Tap("modes", MaxModeChanges)
  /\ mode # dataState.currentMode
  /\ Commit([Panel EXCEPT !.ds.currentMode = mode])
  /\ UNCHANGED <<clock, besidesPanel>>

\* handleFileUpload: reader.onload
HandleFileUpload ==
  /\ Tap("uploads", MaxUploads)
  /\ dataState.currentMode = "upload"
  /\ Commit(SetTimeout(
              AddChatMessageWithTyping(
                [Panel EXCEPT !.ds.csvData = TRUE, !.ds.analysisStep = "none",
                              !.ds.completedAnalyses = <<>>],
                "assistant", 800),
              "clean", 1000))
  /\ UNCHANGED <<clock, besidesPanel>>

\* the Send button: processChatInput(userInput) up to its first await or its end
ProcessChatInput(input) ==
  /\ Tap("asks", MaxAsks)
  /\ Settled
  /\ dataState.currentMode = "chat"
  /\ ~dataState.isProcessing /\ ~dataState.isTyping
  /\ LET said == AddChatMessageWithTyping([Panel EXCEPT !.ds.isProcessing = TRUE], "user", 0)
         step == dataState.analysisStep
         ran ==
           IF ~dataState.csvData
           THEN AddChatMessageWithTyping(said, "assistant", 600)
           ELSE CASE input = "all" ->
                       IF step = "visualization"
                       THEN GenerateCorrelationMatrix(
                              AddChatMessageWithTyping(said, "assistant", 500), "chat")
                       ELSE CreateInitialVisualizations(
                              AddChatMessageWithTyping(said, "assistant", 500), "all")
                  [] input = "correlation" -> GenerateCorrelationMatrix(said, "chat")
                  [] input = "chart" ->
                       IF step \in {"cleaning", "exploration"}
                       THEN CreateInitialVisualizations(said, "chat")
                       ELSE HandleNaturalLanguageChart(said, "chat")
                  [] input = "clean" /\ step = "none" -> PerformDataCleaning(said, "chat")
                  [] OTHER -> Await(said, "orchestrator", "chat")
     IN Commit(IF Len(ran.calls) = Len(pendingCalls) THEN Finally(ran) ELSE ran)
  /\ UNCHANGED <<clock, besidesPanel>>

\* the action panel is rendered
ActionPanel ==
  /\ dataState.currentMode = "chat"
  /\ dataState.csvData /\ ~dataState.isTyping /\ ~dataState.isProcessing
  /\ Len(dataState.completedAnalyses) < 4

\* one of its buttons is clicked
ClickAnalysis(button) ==
  /\ Tap("asks", MaxAsks)
  /\ Settled
  /\ ActionPanel
  /\ CASE button = "visualize" ->
            /\ dataState.analysisStep = "exploration" /\ ~dataState.chartImages
            /\ Commit(CreateInitialVisualizations(Panel, "button"))
       [] button = "correlation" ->
            /\ "correlation" \notin Range(dataState.completedAnalyses)
            /\ Commit(GenerateCorrelationMatrix(Panel, "button"))
       [] button = "predictive" ->
            /\ "predictive" \notin Range(dataState.completedAnalyses)
            /\ Commit(GeneratePredictiveAnalysis(Panel, "button"))
       [] button = "advanced" ->
            /\ "advanced" \notin Range(dataState.completedAnalyses)
            /\ Commit(PerformAnomalyDetection(Panel, "button"))
       [] OTHER ->
            /\ "report" \notin Range(dataState.completedAnalyses)
            /\ Commit(GenerateAnalysisReport(Panel))
  /\ UNCHANGED <<clock, besidesPanel>>

Buttons == {"visualize", "correlation", "predictive", "advanced", "report"}

PanelNext ==
  \/ \E mode \in Modes : SelectMode(mode)
  \/ HandleFileUpload
  \/ \E input \in Inputs : ProcessChatInput(input)
  \/ \E button \in Buttons : ClickAnalysis(button)
  \/ \E i \in 1..Len(pendingTimers) : Fire(i)
  \/ \E i \in 1..Len(pendingCalls), outcome \in PanelOutcomes : Settle(i, outcome)

PanelSpec == Init /\ [][PanelNext]_vars

\* every setTimeout callback runs when it is due, and every backend call settles
PanelFairSpec ==
  /\ PanelSpec
  /\ WF_vars(\E i \in 1..Len(pendingTimers) : Fire(i))
  /\ WF_vars(\E i \in 1..Len(pendingCalls), outcome \in PanelOutcomes : Settle(i, outcome))

(* ------------------------------ claims -------------------------------- *)

Contains(text, part) ==
  \E i \in 0..(Len(text) - Len(part)) : SubSeq(text, i + 1, i + Len(part)) = part
\* the numeric index embedded in a chart file name, -1 when there is none
IndexOf(file) ==
  IF \E i \in 1..Len(Digits) : Digits[i] = file[2]
  THEN (CHOOSE i \in 1..Len(Digits) : Digits[i] = file[2]) - 1
  ELSE -1
Done(r) == phase[r] = "done"
Succeeded(r) == response[r].status = 200
MissingOrEmpty(field) == field.present => Len(field.text) = 0
\* the names the epilogue gives the figures open when the fragment ends
EpilogueNames(r) == {ChartName(k) : k \in 0..(run[r].figs - 1)}

\* C1: every answered request that started an interpreter in its job
\* directory has its cleanup scheduled, whatever the exit path.
C1_CleanupOnEveryExit ==
  \A r \in Reqs : Done(r) /\ effects[r].spawns > 0 => timer[r] # "none"

\* C2: while a request is in flight, no step of another request (its handler,
\* its interpreter or its cleanup timer) writes or deletes in its job
\* directory, and no other request collects its chart files from it.
InFlight(q) == phase[q] \in {"running", "looping", "exited"}
C2_NoCrossTouch ==
  [][\A q \in Reqs :
       InFlight(q) =>
         /\ phase'[q] = phase[q] => fs'[jobId[q]] = fs[jobId[q]]
         /\ \A r \in Reqs \ {q} :
              jobId[r] = jobId[q] => ~(phase[r] = "exited" /\ response'[r].status = 200)]_vars

\* C3: two allocations never receive the same job identifier.
C3_FreshJobId ==
  \A r, q \in Reqs :
    r # q /\ effects[r].mkdirs > 0 /\ effects[q].mkdirs > 0 => jobId[r] # jobId[q]

\* C4: the artifacts of a success response come in ascending order of the
\* numeric index embedded in their file names.
C4_SortedByIndex ==
  \A r \in Reqs :
    Succeeded(r) =>
      \A i, j \in 1..Len(chartFiles[r]) :
        i < j /\ IndexOf(chartFiles[r][i]) >= 0 /\ IndexOf(chartFiles[r][j]) >= 0
          => IndexOf(chartFiles[r][i]) < IndexOf(chartFiles[r][j])

CollectFailed(r) == response[r].details \in {FsError("scandir"), FsError("open")}
C6_ZeroExitCompletes ==
  \A r \in Reqs : Done(r) /\ run[r].exit = 0 /\ ~CollectFailed(r) => Succeeded(r)

\* C7: a run that exits with a non-zero code (a fragment that raises, an
\* interpreter that is not found) ends in a 500 response whose details are not
\* empty and contain the captured standard error, with no artifacts.
C7_NonZeroExitFails ==
  \A r \in Reqs :
    Done(r) /\ run[r].exit > 0 =>
      /\ response[r].status = 500
      /\ "details" \in response[r].keys
      /\ response[r].details # NoText
      /\ Contains(response[r].details, run[r].stderr)
      /\ "chartImages" \notin response[r].keys
      /\ response[r].chartImages = <<>>

C7_Witness ==
  \E r \in Reqs : Done(r) /\ run[r].exit > 0 /\ run[r].stderr = TracebackText

\* C8: a run that exits with code zero and writes no chart file ends in a
\* success response with count 0 and an empty artifact list.
C8_EmptyRunCompletes ==
  \A r \in Reqs :
    Done(r) /\ run[r].exit = 0 /\ run[r].figs = 0
      /\ (\A n \in run[r].direct : ~IsChartFile(n)) /\ ~CollectFailed(r)
    => /\ Succeeded(r)
       /\ response[r].chartsGenerated = 0
       /\ response[r].chartImages = <<>>

\* C9: every request whose interpreter was started is answered in the end,
\* also when the fragment never ends.
C9_AlwaysAnswered ==
  \A r \in Reqs : (phase[r] = "running") ~> (response[r].status # 0)

\* C10: a request whose dataset or code fragment is missing or empty gets a
\* 400 response, and no directory, file or interpreter was made for it.
C10_InvalidRejected ==
  \A r \in Reqs :
    phase[r] # "idle" /\ (MissingOrEmpty(body[r].csvData) \/ MissingOrEmpty(body[r].pythonCode))
    => /\ Done(r)
       /\ response[r].status = 400
       /\ effects[r] = NoEffects
       /\ jobId[r] = NoJob
       /\ timer[r] = "none"
       /\ \A id \in JobIds : \A f \in fs[id].files : f[2][1] # r

C10_Witness ==
  \E r \in Reqs :
    /\ Done(r) /\ response[r].status = 400
    /\ body[r].csvData = CsvField /\ body[r].pythonCode = EmptyField

\* C11: the answers to two failures of different kinds (bad input, workspace
\* failure, interpreter unavailable, execution failed, no artifacts) differ in
\* their status or in their error field.
FailureKind(r) ==
  IF MissingOrEmpty(body[r].csvData) \/ MissingOrEmpty(body[r].pythonCode)
  THEN "InvalidInput"
  ELSE IF jobId[r] # NoJob /\ effects[r].spawns = 0 THEN "WorkspaceError"
  ELSE IF run[r].exit = 127 THEN "InterpreterUnavailable"
  ELSE IF run[r].exit > 0 THEN "ExecutionFailed"
  ELSE IF run[r].exit = 0 /\ Succeeded(r) /\ response[r].chartsGenerated = 0
  THEN "NoArtifacts"
  ELSE "other"
C11_KindsDistinguished ==
  \A r, q \in Reqs :
    /\ Done(r) /\ Done(q)
    /\ FailureKind(r) # "other" /\ FailureKind(q) # "other"
    /\ FailureKind(r) # FailureKind(q)
    => <<response[r].status, response[r].error>> # <<response[q].status, response[q].error>>

\* C12: the step of the cleanup callback, also when rmSync fails in it,
\* changes no response and no request's progress: nothing is answered by it.
C12_CleanupFailureSwallowed ==
  [][\A r \in Reqs :
       timer[r] = "due" /\ timer'[r] = "fired" => response' = response /\ phase' = phase]_vars

C12_Witness ==
  \E r \in Reqs : timer[r] = "fired" /\ fs[jobId[r]].exists /\ response[r].status = 200

\* C13: a request whose directory, data.csv or script.py could not be made is
\* answered 500 at once: no interpreter was started for it, no run is recorded,
\* no timer is set, and no file system call was made twice.
C13_FsFailureAborts ==
  \A r \in Reqs :
    jobId[r] # NoJob /\ effects[r].writes < 2 =>
      /\ Done(r)
      /\ response[r].status = 500
      /\ effects[r].spawns = 0
      /\ effects[r].mkdirs <= 1
      /\ run[r] = NoRun
      /\ timer[r] = "none"

C13_Witness ==
  \E r \in Reqs :
    /\ Done(r) /\ response[r].details = FsError("open")
    /\ effects[r] = [mkdirs |-> 1, writes |-> 1, spawns |-> 0]

\* C14: for each request the interpreter is started at most once and the job
\* directory is made at most once, and an answered request stays answered.
C14_NoRetry ==
  \A r \in Reqs :
    /\ effects[r].spawns <= 1
    /\ effects[r].mkdirs <= 1
    /\ effects[r].writes <= 2
    /\ response[r].status # 0 => Done(r)

C14_Witness ==
  \E r \in Reqs :
    /\ Done(r) /\ response[r].status = 500 /\ run[r].exit > 0
    /\ effects[r].spawns = 1 /\ effects[r].mkdirs = 1

\* C15: in the step that answers with success, the i-th string is the png data
\* URI of the base64 text of the i-th collected file, the collected files are
\* the chart files of the job directory, each once, and the count reported is
\* their number.
C15_EncodingPreserves ==
  [][\A r \in Reqs :
       phase[r] = "exited" /\ response'[r].status = 200 =>
         LET dir == fs[jobId[r]]
             found == {n \in Names(dir) : IsChartFile(n)}
             files == chartFiles'[r]
             images == response'[r].chartImages
         IN /\ Range(files) = found
            /\ Len(files) = Cardinality(found)
            /\ Len(images) = Len(files)
            /\ \A i \in 1..Len(files) :
                 images[i] = <<"data:image/png;base64,", <<"base64", ContentOf(dir, files[i])>>>>
            /\ response'[r].chartsGenerated = Cardinality(found)]_vars

C15_Witness ==
  \E r \in Reqs :
    /\ Succeeded(r) /\ response[r].chartsGenerated = 2
    /\ response[r].stdout # response[r].chartsGenerated

\* C16: the job directory of a request that is not yet answered is not removed.
C16_DirKeptUntilAnswered ==
  [][\A r \in Reqs :
       InFlight(r) /\ fs[jobId[r]].exists => fs'[jobId[r]].exists]_vars

\* C17: handling execute-python requests leaves liveSyncConfigs as it was, and
\* every artifact a request returns was written by its own interpreter run.
C17_RequestsIndependent ==
  /\ liveSyncConfigs = [id \in SyncIds |-> NoConfig]
  /\ \A r \in Reqs :
       Succeeded(r) =>
         \A i \in 1..Len(response[r].chartImages) : response[r].chartImages[i][2][2][1] = r

\* C18: no step removes an entry of liveSyncConfigs or makes the map smaller;
\* the sync id a setup answers with is in the map; and sync-status of a sync
\* id that is in the map answers 200, never 404.
Configured == {id \in SyncIds : liveSyncConfigs[id] # NoConfig}
C18_NeverEvicted ==
  [][/\ \A id \in Configured : liveSyncConfigs'[id] # NoConfig
     /\ Cardinality(Configured) <= Cardinality(Configured')
     /\ syncReply'.route = "setup-live-sync" /\ syncReply'.status = 200
          => liveSyncConfigs'[syncReply'.syncId] # NoConfig
     /\ \A id \in Configured : SyncStatus(id) => syncReply'.status = 200]_vars

C18_Witness ==
  /\ syncReply.route = "sync-status" /\ syncReply.status = 200
  /\ syncReply.lastSync > syncReply.syncId[1]
  /\ Cardinality(Configured) >= 2

\* C19: next() is called at most once, and only after a token was extracted
\* and verify resolved to a defined value, and then nothing is sent; when the
\* extraction threw an AuthorizationError or verify resolved to undefined, the
\* middleware has called res.status(401) once and res.json once, with
\* {error: "unauthorized", message} (the error's message, or "Token is
\* invalid"), and has not called next().
C19_NextOnlyWhenVerified ==
  \A c \in Calls :
    LET m == mw[c]
        sent(message) ==
          /\ m.statusCalls = <<401>>
          /\ m.jsonCalls = <<[error |-> "unauthorized", message |-> message]>>
          /\ m.nextCalls = 0
    IN /\ m.nextCalls <= 1
       /\ m.nextCalls = 1 =>
            /\ ~m.extracted.threw /\ m.extracted.token # ""
            /\ m.user \notin {Undefined, NotAsked}
            /\ m.statusCalls = <<>> /\ m.jsonCalls = <<>>
       /\ m.pc = "done" /\ m.extracted.threw => sent(m.extracted.message)
       /\ m.pc = "done" /\ ~m.extracted.threw /\ m.user = Undefined => sent("Token is invalid")

C19_Witness ==
  /\ \E c \in Calls : mw[c].pc = "done" /\ mw[c].user = Undefined /\ mw[c].statusCalls = <<401>>
  /\ \E c \in Calls : mw[c].extracted = AuthorizationError("Fake error") /\ mw[c].nextCalls = 0

\* C20: once getTokenFromHttpHeader has settled, the "Authorization" header
\* was read exactly once; a header "Bearer <token>" with a token that is not
\* empty gave that token; no header gave the error 'Missing the
\* "Authorization" header'; another scheme or an empty token gave the error
\* 'Missing a "Bearer" token in the "Authorization" header'.
C20_TokenFromHeader ==
  \A c \in Calls :
    LET m == mw[c]
        h == m.header
        wellFormed == h.present /\ Len(h.text) = 3 /\ h.text[1] = "Bearer" /\ h.text[2] = " "
    IN m.extractor = "getTokenFromHttpHeader" /\ m.pc \in {"verify", "done"} =>
         /\ m.headerReads = <<"Authorization">>
         /\ wellFormed => m.extracted = [threw |-> FALSE, message |-> "", token |-> h.text[3]]
         /\ ~h.present =>
              m.extracted = [threw |-> TRUE, token |-> "",
                             message |-> "Missing the \"Authorization\" header"]
         /\ h.present /\ ~wellFormed =>
              m.extracted = [threw |-> TRUE, token |-> "",
                             message |-> "Missing a \"Bearer\" token in the \"Authorization\" header"]

C20_Witness ==
  \E c, d \in Calls :
    /\ mw[c].extractor = "getTokenFromHttpHeader" /\ mw[c].extracted.token = "TOKEN"
    /\ mw[d].extractor = "getTokenFromHttpHeader" /\ mw[d].pc = "done"
    /\ mw[d].header.present /\ mw[d].header.text[1] = "Beerer" /\ mw[d].extracted.threw

\* C21: in every state of the app context (loading, no credits, some
\* credits) the purchase link is rendered, and every activation of it calls
\* requestOpenExternalUrl once, with the purchase URL.
C21_PurchaseLinkOpensUrl ==
  /\ PurchaseLink \in credits.view
  /\ Len(credits.opened) = Len(credits.clicks)
  /\ \A i \in 1..Len(credits.opened) : credits.opened[i] = "https://example.com"

C21_Witness ==
  /\ Len(credits.opened) = MaxClicks
  /\ \E i, j \in 1..Len(credits.clicks) :
       /\ credits.clicks[i].loadingApp
       /\ ~credits.clicks[j].loadingApp /\ credits.clicks[j].remainingCredits = 0

\* C22: one execution goes forward only: the directory is made, then data.csv
\* is written, then script.py, then the interpreter is started; chart files
\* are collected only from an interpreter that has exited with code zero; the
\* execution ends answered with success or failure and no stage is entered
\* twice.
PhaseRank(p) ==
  CASE p = "idle" -> 0
    [] p = "running" -> 1
    [] p = "looping" -> 2
    [] p = "exited" -> 2
    [] OTHER -> 3
C22_StatesInOrder ==
  [][\A r \in Reqs :
       /\ phase'[r] # phase[r] => PhaseRank(phase'[r]) > PhaseRank(phase[r])
       /\ effects'[r] # effects[r] =>
            /\ phase[r] = "idle"
            /\ effects[r] = NoEffects
            /\ effects'[r].writes >= 1 =>
                 /\ effects'[r].mkdirs = 1
                 /\ ContentOf(fs'[jobId'[r]], CsvName) = <<r, "csv", 0>>
            /\ effects'[r].writes = 1 =>
                 <<ScriptName, <<r, "script", 0>>>> \notin fs'[jobId'[r]].files
            /\ effects'[r].writes = 2 =>
                 ContentOf(fs'[jobId'[r]], ScriptName) = <<r, "script", 0>>
            /\ effects'[r].spawns >= 1 <=> phase'[r] = "running"
            /\ effects'[r].spawns >= 1 => effects'[r].writes = 2
       /\ phase'[r] = "running" => effects'[r] = [mkdirs |-> 1, writes |-> 2, spawns |-> 1]
       /\ chartFiles'[r] # chartFiles[r] =>
            /\ phase[r] = "exited" /\ run[r].exit = 0
            /\ phase'[r] = "done" /\ response'[r].status = 200
       /\ phase'[r] = "done" /\ phase[r] \notin {"idle", "done"} =>
            /\ phase[r] = "exited"
            /\ response'[r].status \in {200, 500}]_vars

C22_Witness ==
  \E r \in Reqs :
    /\ Succeeded(r) /\ chartFiles[r] # <<>>
    /\ effects[r] = [mkdirs |-> 1, writes |-> 2, spawns |-> 1]

\* C23 as stated: when the epilogue has run, the figures that were open are
\* saved under the indices 0, 1, 2, ... in the order they were created, one
\* file each, and all are closed.
C23_CreationOrder ==
  epilogue.pc = "done" =>
    /\ Len(epilogue.saved) = Len(epilogue.created)
    /\ \A i \in 1..Len(epilogue.saved) :
         /\ epilogue.saved[i].index = i - 1
         /\ epilogue.saved[i].figure = epilogue.created[i]
    /\ epilogue.open = {}

\* C24: a success response holds as many artifacts as there are names in the
\* union of the chart_*.png names the fragment wrote itself and
\* chart_0 .. chart_(k-1) for the k figures open at its end.
DirectCharts(r) == {n \in run[r].direct : IsChartFile(n)}
C24_CountIsUnion ==
  \A r \in Reqs :
    Succeeded(r) =>
      /\ Len(response[r].chartImages) = Cardinality(DirectCharts(r) \cup EpilogueNames(r))
      /\ Range(chartFiles[r]) = DirectCharts(r) \cup EpilogueNames(r)

\* C30 as stated: every answered request to a model-backed route got exactly
\* one response; with a required field missing it is a 400 sent without
\* calling the model; a reply that is not JSON gives a 200 with the fallback
\* fields; and a 500 is sent only when the model call itself failed.
C30_LlmResponses ==
  \A a \in Asks :
    llm[a].pc = "done" =>
      /\ llm[a].sent = 1
      /\ llm[a].body.missing # {} => llm[a].status = 400 /\ llm[a].modelCalls = 0
      /\ llm[a].reply = "not JSON" => llm[a].status = 200 /\ llm[a].fallback
      /\ llm[a].status = 500 => llm[a].reply = "rejected"

\* C25 as stated: whenever isProcessing is true it eventually becomes false
\* again, given that every timer callback runs and every backend call settles.
C25_ProcessingEnds == dataState.isProcessing ~> ~dataState.isProcessing

\* C26 as stated: the messages of chatMessages have pairwise distinct ids.
C26_DistinctIds ==
  \A i, j \in 1..Len(chatMessages) :
    i # j => chatMessages[i].id # chatMessages[j].id

\* C27 as stated: isTyping is true whenever an assistant message scheduled by
\* addChatMessageWithTyping has not yet been appended.
C27_TypingWhilePending ==
  (\E i \in 1..Len(pendingTimers) : pendingTimers[i].kind = "message")
    => dataState.isTyping

\* C28 as stated: completedAnalyses never holds the same name twice, and so
\* never more than 4 names.
C28_NoDuplicateAnalyses ==
  /\ \A i, j \in 1..Len(dataState.completedAnalyses) :
       i # j => dataState.completedAnalyses[i] # dataState.completedAnalyses[j]
  /\ Len(dataState.completedAnalyses) <= 4

\* C29 as stated: no step removes or replaces a message of chatMessages, and
\* the introduction message is inserted only while none was inserted before.
C29_HistoryOnlyGrows ==
  [][/\ Len(chatMessages') >= Len(chatMessages)
     /\ \A i \in 1..Len(chatMessages) : chatMessages'[i] = chatMessages[i]
     /\ (\E i \in 1..Len(chatMessages') :
           /\ chatMessages'[i].content = "intro"
           /\ chatMessages'[i] \notin Range(chatMessages))
          => ~dataState.hasIntroduced]_vars

====
